---- MODULE Spec2Model ----
(***************************************************************************)
(* Session aggregation and caching engine of the F1 dashboard backend      *)
(* (Backend/app.py): the memoised session loader get_cached_session, the   *)
(* season standings aggregation get_standings, the pit-stop detection      *)
(* get_pitstops and the lap projection of get_session_data.                *)
(***************************************************************************)
EXTENDS Integers, Sequences, FiniteSets, TLC

(***************************************************************************)
(* Bounds of the model.                                                    *)
(***************************************************************************)
\* Rounds of the modelled season; keys are (year, round, session type).
NumRounds == 3
\* lru_cache(maxsize=200), scaled down so that the cache fills up.
maxsize == 2
\* Calls of get_cached_session in one run of the cache specification.
MaxCalls == 4
\* Standings requests in one run of the standings specification.
MaxRequests == 2
\* Lap numbers of a session's laps, and rows of its lap table.
NumLaps == 3
MaxRows == 4
\* Points of a fastest lap's telemetry trace.
MaxPoints == 101

\* A handler that has not answered.
NoResponse == [status |-> "none"]

\* No key, no result yet, and the result of a call that raised.
NoKey == <<>>
NoResult == [kind |-> "none"]
ERROR == [kind |-> "error"]

\* Two request threads of the (threaded) Flask server share the cache.
Threads == {1, 2}
Rounds == 1..NumRounds
Year == 2024

\* The keys get_cached_session is called with: the race of every round and
\* the qualifying of the first one.
Keys == {<<Year, r, "R">> : r \in Rounds} \cup {<<Year, 1, "Q">>}

VARIABLES
    cache,      \* lru_cache: entries [key, rec], least recently used first
    hits,       \* lru_cache's hit counter
    misses,     \* lru_cache's miss counter: the calls of the wrapped function
    pc,         \* per thread: "idle", "loading" (inside the wrapped function), "done"
    key,        \* per thread: the key of its call
    ret,        \* per thread: the session returned, ERROR if the call raised
    calls,      \* per key: invocations of the provider load
    failed,     \* per key: some load of the key has raised
    clock,      \* count of cache accesses (hits and insertions)
    lastUse     \* per key: the clock of its most recent hit or insertion

cacheVars == <<cache, hits, misses, pc, key, ret, calls, failed, clock, lastUse>>

VARIABLES
    results,        \* provider data: session.results of every round's race
                    \* (no rows while the round has never been loaded)
    spc,            \* get_standings: "idle", "rounds" (in the loop), "done"
    latest_round,   \* get_standings: latest_round
    round_num,      \* get_standings: the loop variable
    driver_points,  \* get_standings: dict, entries in insertion order
    team_points,    \* get_standings: dict, entries in insertion order
    response,       \* the JSON body of the last standings response
    requests,       \* standings requests started
    loaded,         \* rounds whose session this request got
    attempts,       \* per round: get_cached_session calls of this request
    prevLoaded      \* rounds whose session the previous request got

standVars == <<results, spc, latest_round, round_num, driver_points, team_points,
               response, requests, loaded, attempts, prevLoaded>>

VARIABLES
    laps,           \* provider data: the rows of session.laps, in table order
    pit_stops,      \* the JSON body of the pit-stop response
    session_data    \* the JSON body of the session response (laps, total_laps)

lapVars == <<laps, pit_stops, session_data>>

VARIABLES
    fastest_lap,    \* provider data: what picking the driver's fastest lap gives
    telemetry,      \* provider data: the points of fastest_lap.get_telemetry()
    telemetry_data  \* the JSON body of the telemetry response

teleVars == <<fastest_lap, telemetry, telemetry_data>>

vars == <<cacheVars, standVars, lapVars, teleVars>>

(***************************************************************************)
(* functools.lru_cache(maxsize) as used on get_cached_session.             *)
(***************************************************************************)
CachedKeys(c) == {c[i].key : i \in 1..Len(c)}

InCache(c, k) == k \in CachedKeys(c)

\* The position of key k in the recency list.
IndexOf(c, k) == CHOOSE i \in 1..Len(c) : c[i].key = k

\* The session stored under k.
Lookup(c, k) == c[IndexOf(c, k)].rec

Remove(c, i) == SubSeq(c, 1, i - 1) \o SubSeq(c, i + 1, Len(c))

\* Faulty variant of Touch: a hit leaves the recency list as it is (first in, first out).
TouchFifo(c, k) == c

\* A hit moves the entry to the most recently used end.
Touch(c, k) == Append(Remove(c, IndexOf(c, k)), c[IndexOf(c, k)])

\* Storing a result after the wrapped function returned: nothing if the key
\* was added meanwhile, a new entry while there is room, and otherwise the
\* oldest entry is dropped for the new one.
Store(c, k, r) ==
    IF InCache(c, k) THEN c
    ELSE IF Len(c) < maxsize THEN Append(c, [key |-> k, rec |-> r])
    ELSE Append(Tail(c), [key |-> k, rec |-> r])

\* What a completed load does to the recency ghost: an insertion is an access.
Stamp(c, k, lu, clk) == IF InCache(c, k) THEN lu ELSE [lu EXCEPT ![k] = clk]

\* The session object a provider load creates: one per invocation.
NewSession(k, n) == [kind |-> "session", key |-> k, id |-> n]

(***************************************************************************)
(* get_cached_session, called by the request threads.                      *)
(***************************************************************************)
InitCache ==
    /\ cache = <<>>
    /\ hits = 0
    /\ misses = 0
    /\ pc = [t \in Threads |-> "idle"]
    /\ key = [t \in Threads |-> NoKey]
    /\ ret = [t \in Threads |-> NoResult]
    /\ calls = [k \in Keys |-> 0]
    /\ failed = [k \in Keys |-> FALSE]
    /\ clock = 0
    /\ lastUse = [k \in Keys |-> 0]

\* Faulty variant of Call: no memoisation, every call enters the wrapped function.
CallNoMemo(t, k) ==
    /\ pc[t] = "idle"
    /\ hits + misses < MaxCalls
    /\ key' = [key EXCEPT ![t] = k]
    /\ misses' = misses + 1
    /\ calls' = [calls EXCEPT ![k] = @ + 1]
    /\ ret' = [ret EXCEPT ![t] = NewSession(k, misses + 1)]
    /\ pc' = [pc EXCEPT ![t] = "loading"]
    /\ UNCHANGED <<cache, hits, clock, lastUse, failed, standVars, lapVars, teleVars>>

\* The wrapper's lookup: a hit returns the stored session, a miss enters the
\* wrapped function (the provider load starts).
Call(t, k) ==
    /\ pc[t] = "idle"
    /\ hits + misses < MaxCalls
    /\ key' = [key EXCEPT ![t] = k]
    /\ IF InCache(cache, k)
       THEN /\ cache' = Touch(cache, k)
            /\ hits' = hits + 1
            /\ ret' = [ret EXCEPT ![t] = Lookup(cache, k)]
            /\ pc' = [pc EXCEPT ![t] = "done"]
            /\ clock' = clock + 1
            /\ lastUse' = [lastUse EXCEPT ![k] = clock + 1]
            /\ UNCHANGED <<misses, calls>>
       ELSE /\ misses' = misses + 1
            /\ calls' = [calls EXCEPT ![k] = @ + 1]
            /\ ret' = [ret EXCEPT ![t] = NewSession(k, misses + 1)]
            /\ pc' = [pc EXCEPT ![t] = "loading"]
            /\ UNCHANGED <<cache, hits, clock, lastUse>>
    /\ UNCHANGED <<failed, standVars, lapVars, teleVars>>

\* fastf1.get_session and session.load succeed: the wrapper stores the session.
LoadOk(t) ==
    /\ pc[t] = "loading"
    /\ cache' = Store(cache, key[t], ret[t])
    /\ clock' = IF InCache(cache, key[t]) THEN clock ELSE clock + 1
    /\ lastUse' = Stamp(cache, key[t], lastUse, clock + 1)
    /\ pc' = [pc EXCEPT ![t] = "done"]
    /\ UNCHANGED <<hits, misses, key, ret, calls, failed, standVars, lapVars, teleVars>>

\* Faulty variant of LoadFail: the failure is memoised like a result.
LoadFailCached(t) ==
    /\ pc[t] = "loading"
    /\ ret' = [ret EXCEPT ![t] = ERROR]
    /\ failed' = [failed EXCEPT ![key[t]] = TRUE]
    /\ cache' = Store(cache, key[t], ERROR)
    /\ pc' = [pc EXCEPT ![t] = "done"]
    /\ UNCHANGED <<hits, misses, key, calls, clock, lastUse, standVars, lapVars, teleVars>>

\* The provider raises: the exception leaves the wrapper, nothing is stored.
LoadFail(t) ==
    /\ pc[t] = "loading"
    /\ ret' = [ret EXCEPT ![t] = ERROR]
    /\ failed' = [failed EXCEPT ![key[t]] = TRUE]
    /\ pc' = [pc EXCEPT ![t] = "done"]
    /\ UNCHANGED <<cache, hits, misses, key, calls, clock, lastUse, standVars, lapVars, teleVars>>

\* The caller has its result; the thread serves the next request.
Return(t) ==
    /\ pc[t] = "done"
    /\ pc' = [pc EXCEPT ![t] = "idle"]
    /\ key' = [key EXCEPT ![t] = NoKey]
    /\ ret' = [ret EXCEPT ![t] = NoResult]
    /\ UNCHANGED <<cache, hits, misses, calls, failed, clock, lastUse, standVars, lapVars, teleVars>>

(***************************************************************************)
(* get_cached_session as one step of a handler: the lookup and, on a miss, *)
(* the provider load and the store.                                        *)
(***************************************************************************)
\* The call returns a session: the cached one, or a newly loaded one.
GetSessionOk(k) ==
    /\ IF InCache(cache, k)
       THEN /\ cache' = Touch(cache, k)
            /\ hits' = hits + 1
            /\ lastUse' = [lastUse EXCEPT ![k] = clock + 1]
            /\ UNCHANGED <<misses, calls>>
       ELSE /\ misses' = misses + 1
            /\ calls' = [calls EXCEPT ![k] = @ + 1]
            /\ cache' = Store(cache, k, NewSession(k, misses + 1))
            /\ lastUse' = Stamp(cache, k, lastUse, clock + 1)
            /\ UNCHANGED hits
    /\ clock' = clock + 1
    /\ UNCHANGED <<failed, pc, key, ret>>

\* The call raises: the key is not cached and the provider load fails.
GetSessionFail(k) ==
    /\ ~InCache(cache, k)
    /\ misses' = misses + 1
    /\ calls' = [calls EXCEPT ![k] = @ + 1]
    /\ failed' = [failed EXCEPT ![k] = TRUE]
    /\ UNCHANGED <<cache, hits, clock, lastUse, pc, key, ret>>

(***************************************************************************)
(* Provider data: the result rows of a race.                               *)
(***************************************************************************)
\* pandas' missing value in the Points column.
NaN == -1

notna(x) == x # NaN

Drivers == {"VER", "PER", "LEC"}

TeamName(d) == IF d = "LEC" THEN "Ferrari" ELSE "Red Bull Racing"

Teams == {TeamName(d) : d \in Drivers}

\* Points of the first two positions; a third row has no points recorded.
PointsByPosition == <<25, 18, NaN>>

\* The finishing orders of a race: two or three of the drivers.
Orders ==
    UNION {{p \in [1..n -> Drivers] : \A i, j \in 1..n : i # j => p[i] # p[j]} :
           n \in {2, 3}}

\* A race's results: one row per classified driver, in finishing order.
ResultTables ==
    {[i \in 1..Len(o) |-> [Abbreviation |-> o[i], TeamName |-> TeamName(o[i]),
                           Points |-> PointsByPosition[i]]] : o \in Orders}

(***************************************************************************)
(* Provider data: the laps of a session.                                   *)
(***************************************************************************)
\* A missing value is Python's None or pandas' NaN, either may stand in a cell.
None == "None"
nan == "nan"

Compounds == {"SOFT", "MEDIUM", None, nan}

\* LapTime: a duration in seconds, or NaT.
NaT == "NaT"
LapTimes == {"90.0", NaT}

\* pd.notna
present(x) == x \notin {None, nan, NaT}

LapDrivers == {"VER", "HAM"}

\* The laps a session may hold, in the order driver, lap number.
Slots ==
    [i \in 1..(2 * NumLaps) |->
        [Driver |-> IF i <= NumLaps THEN "VER" ELSE "HAM",
         LapNumber |-> IF i <= NumLaps THEN i ELSE i - NumLaps]]

Absent == [Compound |-> "absent", LapTime |-> "absent"]

Cells == [Compound : Compounds, LapTime : LapTimes] \cup {Absent}

\* The lap table that holds the laps of f, in slot order.
RECURSIVE TableOf(_, _)
TableOf(f, i) ==
    IF i = 0 THEN <<>>
    ELSE IF f[i] = Absent THEN TableOf(f, i - 1)
    ELSE Append(TableOf(f, i - 1),
                [Driver |-> Slots[i].Driver, LapNumber |-> Slots[i].LapNumber,
                 LapTime |-> f[i].LapTime, Compound |-> f[i].Compound])

Reverse(s) == [i \in 1..Len(s) |-> s[Len(s) + 1 - i]]

\* Lap tables of at most n rows, lap numbers ascending or descending.
LapTables(n) ==
    LET T == {TableOf(f, 2 * NumLaps) :
                f \in {g \in [1..(2 * NumLaps) -> Cells] :
                         Cardinality({i \in 1..(2 * NumLaps) : g[i] # Absent}) <= n}}
    IN  T \cup {Reverse(t) : t \in T}

(***************************************************************************)
(* get_pitstops.                                                           *)
(***************************************************************************)
\* laps['Driver'].unique(): the drivers in the order of their first row.
RECURSIVE Unique(_, _)
Unique(rows, seen) ==
    IF rows = <<>> THEN seen
    ELSE IF \E i \in 1..Len(seen) : seen[i] = Head(rows).Driver
         THEN Unique(Tail(rows), seen)
         ELSE Unique(Tail(rows), Append(seen, Head(rows).Driver))

\* laps[laps['Driver'] == driver]
DriverLaps(rows, driver) == SelectSeq(rows, LAMBDA r : r.Driver = driver)

\* One step of sort_values('LapNumber'): the row goes behind the lower laps.
InsertByLap(s, e) ==
    LET n == Cardinality({i \in 1..Len(s) : s[i].LapNumber <= e.LapNumber})
    IN  SubSeq(s, 1, n) \o <<e>> \o SubSeq(s, n + 1, Len(s))

RECURSIVE SortByLap(_, _)
SortByLap(done, rest) ==
    IF rest = <<>> THEN done
    ELSE SortByLap(InsertByLap(done, Head(rest)), Tail(rest))

\* Python's !=: NaN is unequal to everything, itself included.
NotEqual(a, b) == a = nan \/ b = nan \/ a # b

\* The walk over one driver's sorted laps with prev_compound.
RECURSIVE Walk(_, _, _, _)
Walk(driver, rows, prev_compound, out) ==
    IF rows = <<>> THEN out
    ELSE LET current_compound == Head(rows).Compound
             hit == prev_compound # None /\ NotEqual(current_compound, prev_compound)
         IN  Walk(driver, Tail(rows), current_compound,
                  IF hit
                  THEN Append(out, [driver |-> driver, lap |-> Head(rows).LapNumber,
                                    from_compound |-> prev_compound,
                                    to_compound |-> current_compound,
                                    pit_duration |-> None])
                  ELSE out)

\* The loop over the drivers.
RECURSIVE Detect(_, _, _)
Detect(rows, drivers, out) ==
    IF drivers = <<>> THEN out
    ELSE Detect(rows, Tail(drivers),
                Walk(Head(drivers), SortByLap(<<>>, DriverLaps(rows, Head(drivers))),
                     None, out))

GetPitstops ==
    /\ pit_stops = NoResponse
    /\ pit_stops' = [status |-> "success",
                     pit_stops |-> Detect(laps, Unique(laps, <<>>), <<>>)]
    /\ UNCHANGED <<laps, session_data, cacheVars, standVars, teleVars>>

(***************************************************************************)
(* get_session_data: the laps and total_laps.                              *)
(***************************************************************************)
\* laps_subset[laps_subset['LapTime'].notna()]
Timed(rows) == SelectSeq(rows, LAMBDA r : present(r.LapTime))

\* One entry of laps_data.
LapDict(r) ==
    [driver |-> r.Driver, lap_number |-> r.LapNumber, lap_time |-> r.LapTime,
     compound |-> IF present(r.Compound) THEN r.Compound ELSE "UNKNOWN"]

\* int(laps['LapNumber'].max()) if len(laps) > 0 else 0
TotalLaps(rows) ==
    IF Len(rows) > 0
    THEN CHOOSE m \in {rows[i].LapNumber : i \in 1..Len(rows)} :
            \A i \in 1..Len(rows) : rows[i].LapNumber <= m
    ELSE 0

GetSessionData ==
    /\ session_data = NoResponse
    /\ session_data' = [status |-> "success",
                        laps |-> [i \in 1..Len(Timed(laps)) |-> LapDict(Timed(laps)[i])],
                        total_laps |-> TotalLaps(laps)]
    /\ UNCHANGED <<laps, pit_stops, cacheVars, standVars, teleVars>>

InitNoLaps ==
    /\ laps = <<>>
    /\ pit_stops = NoResponse
    /\ session_data = NoResponse

(***************************************************************************)
(* Provider data: the telemetry trace of a fastest lap.                    *)
(***************************************************************************)
\* The point recorded at index i of the trace; a point of a stretch where
\* the car's data was lost holds the missing value in every channel.
Point(i, lost) ==
    IF lost
    THEN [Distance |-> NaN, Speed |-> NaN, Throttle |-> NaN, Brake |-> NaN,
          nGear |-> NaN, RPM |-> NaN, DRS |-> NaN]
    ELSE [Distance |-> 5 * i, Speed |-> 100 + i, Throttle |-> i % 101,
          Brake |-> i % 2, nGear |-> 1 + (i % 8), RPM |-> 9000 + 7 * i,
          DRS |-> 4 * (i % 4)]

\* The stretches of indices over which the data can be lost.
Dropouts == {{}} \cup {a..b : a, b \in {0, 10, 11, 100}}

\* The traces of at most n points.
Traces(n) ==
    {[i \in 1..m |-> Point(i - 1, (i - 1) \in lost)] : m \in 0..n, lost \in Dropouts}

\* What the session gives for the driver: "error" if get_cached_session
\* raises, "nolaps" if the driver has no laps, "none" if there is no valid
\* fastest lap, "lap" otherwise.
Outcomes == {"error", "nolaps", "none", "lap"}

(***************************************************************************)
(* get_telemetry.                                                          *)
(***************************************************************************)
\* The step of the slice telemetry.iloc[::10].
stride == 10

\* JSON null, the rendering of a missing channel value.
null == -2

\* range(start, stop, step) as a sequence.
RECURSIVE Range(_, _, _)
Range(start, stop, step) ==
    IF start >= stop THEN <<>>
    ELSE <<start>> \o Range(start + step, stop, step)

\* frame.iloc[idx] for a list idx of (zero-based) positions.
ILoc(frame, idx) == [j \in 1..Len(idx) |-> frame[idx[j] + 1]]

\* Faulty variant of Sample: decimation that keeps the end of every stride.
SampleSkipFirst(frame) == ILoc(frame, Range(stride, Len(frame), stride))

\* telemetry.iloc[::10]
Sample(frame) == ILoc(frame, Range(0, Len(frame), stride))

\* One entry of telemetry_data.
TelemetryPoint(point) ==
    [distance |-> IF notna(point.Distance) THEN point.Distance ELSE null,
     speed |-> IF notna(point.Speed) THEN point.Speed ELSE null,
     throttle |-> IF notna(point.Throttle) THEN point.Throttle ELSE null,
     brake |-> IF notna(point.Brake) THEN point.Brake # 0 ELSE FALSE,
     gear |-> IF notna(point.nGear) THEN point.nGear ELSE null,
     rpm |-> IF notna(point.RPM) THEN point.RPM ELSE null,
     drs |-> IF notna(point.DRS) THEN point.DRS ELSE 0]

GetTelemetry ==
    /\ telemetry_data = NoResponse
    /\ telemetry_data' =
         IF fastest_lap = "error" THEN [status |-> "error", code |-> 500]
         ELSE IF fastest_lap \in {"nolaps", "none"}
         THEN [status |-> "error", code |-> 404]
         ELSE LET sampled == Sample(telemetry)
              IN  [status |-> "success", code |-> 200,
                   telemetry |-> [j \in 1..Len(sampled) |-> TelemetryPoint(sampled[j])]]
    /\ UNCHANGED <<fastest_lap, telemetry, cacheVars, standVars, lapVars>>

InitNoTelemetry ==
    /\ fastest_lap = "nolaps"
    /\ telemetry = <<>>
    /\ telemetry_data = NoResponse

(***************************************************************************)
(* get_standings.                                                          *)
(***************************************************************************)
\* Index of the entry of subject x (0 if there is none) in a points dict.
Find(d, x) ==
    IF \E i \in 1..Len(d) : d[i].id = x
    THEN CHOOSE i \in 1..Len(d) : d[i].id = x
    ELSE 0

\* dict[x]['points'] += p, after creating the entry with 0 points if absent.
AddPoints(d, x, p) ==
    IF Find(d, x) = 0
    THEN Append(d, [id |-> x, points |-> 0 + p])
    ELSE [d EXCEPT ![Find(d, x)].points = @ + p]

\* float(result['Points']) if pd.notna(result['Points']) else 0
PointsOf(row) == IF notna(row.Points) THEN row.Points ELSE 0

\* The loop over results.iterrows(): each row adds to its driver and its team.
RECURSIVE AccumulateDrivers(_, _)
AccumulateDrivers(d, rows) ==
    IF rows = <<>> THEN d
    ELSE AccumulateDrivers(AddPoints(d, Head(rows).Abbreviation, PointsOf(Head(rows))),
                           Tail(rows))

\* Faulty variant of AccumulateTeams: the row that creates a team's entry is
\* not added to it (the += sits in the else branch of the membership test).
RECURSIVE AccumulateTeamsElse(_, _)
AccumulateTeamsElse(d, rows) ==
    IF rows = <<>> THEN d
    ELSE AccumulateTeamsElse(
             IF Find(d, Head(rows).TeamName) = 0
             THEN Append(d, [id |-> Head(rows).TeamName, points |-> 0])
             ELSE AddPoints(d, Head(rows).TeamName, PointsOf(Head(rows))),
             Tail(rows))

RECURSIVE AccumulateTeams(_, _)
AccumulateTeams(d, rows) ==
    IF rows = <<>> THEN d
    ELSE AccumulateTeams(AddPoints(d, Head(rows).TeamName, PointsOf(Head(rows))),
                         Tail(rows))

\* Faulty variant of InsertSorted: an entry goes before the entries of equal points.
InsertSortedUnstable(s, e) ==
    LET n == Cardinality({i \in 1..Len(s) : s[i].points > e.points})
    IN  SubSeq(s, 1, n) \o <<e>> \o SubSeq(s, n + 1, Len(s))

\* One step of the stable descending sort: the entry goes behind every entry
\* with at least its points.
InsertSorted(s, e) ==
    LET n == Cardinality({i \in 1..Len(s) : s[i].points >= e.points})
    IN  SubSeq(s, 1, n) \o <<e>> \o SubSeq(s, n + 1, Len(s))

\* sorted(d.values(), key=lambda x: x['points'], reverse=True)
RECURSIVE SortByPoints(_, _)
SortByPoints(done, rest) ==
    IF rest = <<>> THEN done
    ELSE SortByPoints(InsertSorted(done, Head(rest)), Tail(rest))

\* for i, x in enumerate(standings): x['position'] = i + 1
WithPositions(s) ==
    [i \in 1..Len(s) |-> [id |-> s[i].id, points |-> s[i].points, position |-> i]]

Standings(d) == WithPositions(SortByPoints(<<>>, d))

RaceKey(r) == <<Year, r, "R">>

InitNoStandings ==
    /\ results = [r \in Rounds |-> <<>>]
    /\ spc = "idle"
    /\ latest_round = 0
    /\ round_num = 0
    /\ driver_points = <<>>
    /\ team_points = <<>>
    /\ response = NoResponse
    /\ requests = 0
    /\ loaded = {}
    /\ attempts = [r \in Rounds |-> 0]
    /\ prevLoaded = {}

\* Faulty variant of StartStandings: the point tables outlive the request.
StartStandingsKeep(n) ==
    /\ UNCHANGED <<lapVars, teleVars>>
    /\ spc \in {"idle", "done"}
    /\ requests < MaxRequests
    /\ n >= latest_round
    /\ n >= 1
    /\ requests' = requests + 1
    /\ prevLoaded' = loaded
    /\ loaded' = {}
    /\ attempts' = [r \in Rounds |-> 0]
    /\ latest_round' = n
    /\ round_num' = 1
    /\ response' = NoResponse
    /\ spc' = "rounds"
    /\ UNCHANGED <<results, driver_points, team_points, cacheVars>>

\* The request arrives when n rounds of the schedule lie in the past (never
\* fewer than at an earlier request): with none the answer is the 404,
\* otherwise the loop starts with empty tables.
StartStandings(n) ==
    /\ UNCHANGED <<lapVars, teleVars>>
    /\ spc \in {"idle", "done"}
    /\ requests < MaxRequests
    /\ n >= latest_round
    /\ requests' = requests + 1
    /\ prevLoaded' = loaded
    /\ loaded' = {}
    /\ attempts' = [r \in Rounds |-> 0]
    /\ driver_points' = <<>>
    /\ team_points' = <<>>
    /\ latest_round' = n
    /\ IF n = 0
       THEN /\ response' = [status |-> "error", code |-> 404]
            /\ round_num' = 0
            /\ spc' = "done"
       ELSE /\ response' = NoResponse
            /\ round_num' = 1
            /\ spc' = "rounds"
    /\ UNCHANGED <<results, cacheVars>>

\* One pass of the loop body whose session is there: its rows are added. The
\* provider's results of a race are fixed from the first load on.
RoundLoaded ==
    /\ UNCHANGED <<lapVars, teleVars>>
    /\ spc = "rounds"
    /\ round_num <= latest_round
    /\ GetSessionOk(RaceKey(round_num))
    /\ \E rows \in ResultTables :
          /\ results[round_num] \in {<<>>, rows}
          /\ results' = [results EXCEPT ![round_num] = rows]
          /\ driver_points' = AccumulateDrivers(driver_points, rows)
          /\ team_points' = AccumulateTeams(team_points, rows)
    /\ loaded' = loaded \cup {round_num}
    /\ attempts' = [attempts EXCEPT ![round_num] = @ + 1]
    /\ round_num' = round_num + 1
    /\ UNCHANGED <<spc, latest_round, response, requests, prevLoaded>>

\* Faulty variant of RoundFailed: the exception ends the request with the 500.
RoundFailedAbort ==
    /\ UNCHANGED <<lapVars, teleVars>>
    /\ spc = "rounds"
    /\ round_num <= latest_round
    /\ GetSessionFail(RaceKey(round_num))
    /\ attempts' = [attempts EXCEPT ![round_num] = @ + 1]
    /\ response' = [status |-> "error", code |-> 500]
    /\ spc' = "done"
    /\ UNCHANGED <<results, latest_round, round_num, requests, prevLoaded,
                   driver_points, team_points, loaded>>

\* One pass whose get_cached_session raises: the warning, and continue.
RoundFailed ==
    /\ UNCHANGED <<lapVars, teleVars>>
    /\ spc = "rounds"
    /\ round_num <= latest_round
    /\ GetSessionFail(RaceKey(round_num))
    /\ attempts' = [attempts EXCEPT ![round_num] = @ + 1]
    /\ round_num' = round_num + 1
    /\ UNCHANGED <<results, spc, latest_round, response, requests, prevLoaded,
                   driver_points, team_points, loaded>>

\* After the loop: both tables sorted, positions assigned, the response.
FinishStandings ==
    /\ UNCHANGED <<lapVars, teleVars>>
    /\ spc = "rounds"
    /\ round_num > latest_round
    /\ response' = [status |-> "success", code |-> 200, year |-> Year,
                    last_race |-> latest_round,
                    driver_standings |-> Standings(driver_points),
                    team_standings |-> Standings(team_points)]
    /\ spc' = "done"
    /\ UNCHANGED <<results, latest_round, round_num, driver_points, team_points,
                   requests, loaded, attempts, prevLoaded, cacheVars>>

NextStandings ==
    \/ \E n \in 0..NumRounds : StartStandings(n)
    \/ RoundLoaded
    \/ RoundFailed
    \/ FinishStandings

InitLaps ==
    /\ InitCache
    /\ InitNoStandings
    /\ InitNoTelemetry
    /\ laps \in LapTables(MaxRows)
    /\ pit_stops = NoResponse
    /\ session_data = NoResponse

NextLaps ==
    \/ GetPitstops
    \/ GetSessionData

\* A telemetry request for a driver of a session: every outcome of the
\* session, every trace of its fastest lap.
InitTelemetry ==
    /\ InitCache
    /\ InitNoStandings
    /\ InitNoLaps
    /\ fastest_lap \in Outcomes
    /\ telemetry \in (IF fastest_lap = "lap" THEN Traces(MaxPoints) ELSE {<<>>})
    /\ telemetry_data = NoResponse

NextTelemetry ==
    \/ GetTelemetry

Init == InitCache /\ InitNoStandings /\ InitNoLaps /\ InitNoTelemetry

Next ==
    \/ \E t \in Threads, k \in Keys : Call(t, k)
    \/ \E t \in Threads : LoadOk(t)
    \/ \E t \in Threads : LoadFail(t)
    \/ \E t \in Threads : Return(t)

Spec == Init /\ [][Next]_vars

SpecStandings == Init /\ [][NextStandings]_vars

SpecLaps == InitLaps /\ [][NextLaps]_vars

SpecTelemetry == InitTelemetry /\ [][NextTelemetry]_vars

(***************************************************************************)
(* Claims about get_cached_session.                                        *)
(***************************************************************************)
\* The sessions stored under key k (at most one).
StoredUnder(c, k) == {c[i].rec : i \in {j \in 1..Len(c) : c[j].key = k}}

\* C1: single-flight. Concurrent calls with the same uncached key share one
\* provider load: no two threads are ever inside the provider load
\* (fastf1.get_session and session.load) of the same key at once.
C1_SingleFlight ==
    \A t1, t2 \in Threads :
        (t1 # t2 /\ pc[t1] = "loading" /\ pc[t2] = "loading") => key[t1] # key[t2]

\* C2: cache idempotence. A call whose key is cached returns the stored
\* session itself at once, without a provider invocation, and the session
\* stays stored under the key.
C2_CacheIdempotence ==
    [][\A t \in Threads :
        (pc[t] = "idle" /\ pc'[t] # "idle" /\ StoredUnder(cache, key'[t]) # {})
        => /\ pc'[t] = "done"
           /\ StoredUnder(cache, key'[t]) = {ret'[t]}
           /\ StoredUnder(cache', key'[t]) = {ret'[t]}
           /\ misses' = misses
           /\ calls' = calls]_vars

\* C2 witness: a key loaded once and then served from the cache.
C2_Witness ==
    \E t \in Threads :
        /\ pc[t] = "done"
        /\ hits >= 2
        /\ calls[key[t]] = 1
        /\ StoredUnder(cache, key[t]) = {ret[t]}

C4_BoundedLRU ==
    /\ [](/\ Len(cache) <= maxsize
          /\ \A i, j \in 1..Len(cache) :
                i < j => /\ cache[i].key # cache[j].key
                         /\ lastUse[cache[i].key] < lastUse[cache[j].key])
    /\ [][\A k \in CachedKeys(cache) \ CachedKeys(cache') :
            /\ Len(cache) = maxsize
            /\ \A k2 \in CachedKeys(cache) : lastUse[k] <= lastUse[k2]
            /\ \E kn \in CachedKeys(cache') \ CachedKeys(cache) :
                  /\ cache'[Len(cache')].key = kn
                  /\ CachedKeys(cache') = (CachedKeys(cache) \ {k}) \cup {kn}]_vars

\* C4 witness: the cache is full, a hit has reordered it, and the key that
\* was inserted first is still cached while a key inserted after it was
\* evicted.
C4_Witness ==
    /\ Len(cache) = maxsize
    /\ hits >= 1
    /\ \E k1, k2 \in Keys :
          /\ k1 \in CachedKeys(cache)
          /\ k2 \notin CachedKeys(cache)
          /\ lastUse[k2] > 0
          /\ ret[1] = NewSession(k1, 1)
          /\ pc[1] = "done"
          /\ calls[k1] = 1 /\ calls[k2] = 1 /\ ~failed[k1] /\ ~failed[k2]

(***************************************************************************)
(* Claims about get_standings.                                             *)
(***************************************************************************)
RECURSIVE SumTo(_, _)
SumTo(f, n) == IF n = 0 THEN 0 ELSE f[n] + SumTo(f, n - 1)

\* The points round r's results give driver d and team t (no points: 0).
DriverRoundPoints(r, d) ==
    SumTo([i \in 1..Len(results[r]) |->
             IF results[r][i].Abbreviation = d /\ results[r][i].Points # NaN
             THEN results[r][i].Points ELSE 0], Len(results[r]))

TeamRoundPoints(r, t) ==
    SumTo([i \in 1..Len(results[r]) |->
             IF results[r][i].TeamName = t /\ results[r][i].Points # NaN
             THEN results[r][i].Points ELSE 0], Len(results[r]))

\* The rows of round r that name driver or team x.
RowsOf(r, x) ==
    {i \in 1..Len(results[r]) :
        results[r][i].Abbreviation = x \/ results[r][i].TeamName = x}

\* The rounds of set S in whose results x appears.
RoundsWith(S, x) == {r \in S : RowsOf(r, x) # {}}

Min(S) == CHOOSE m \in S : \A o \in S : m <= o

Max(S) == CHOOSE m \in S : \A o \in S : m >= o

\* x was met before y while the rounds of S were processed in order.
SeenBefore(S, x, y) ==
    LET rx == Min(RoundsWith(S, x))
        ry == Min(RoundsWith(S, y))
    IN  rx < ry \/ (rx = ry /\ Min(RowsOf(rx, x)) < Min(RowsOf(ry, y)))

\* The points a table or standings list holds for x (0 if it has no entry).
Held(st, x) ==
    SumTo([i \in 1..Len(st) |-> IF st[i].id = x THEN st[i].points ELSE 0], Len(st))

Entries(st, x) == {i \in 1..Len(st) : st[i].id = x}

Answered == spc = "done" /\ response.status = "success"

\* C5: the response's last_race is the highest round whose session was
\* loaded and accumulated in this request.
C5_LastRaceIsLastLoaded ==
    (Answered /\ loaded # {}) => response.last_race = Max(loaded)

\* C6: partial-round resilience. The rounds 1..N are attempted in ascending
\* order, each once; a round whose load raises changes neither table and the
\* loop goes on with the next round; a round that loads adds exactly its
\* rows' points to its drivers and teams; and the request ends with status
\* success and standings that hold what the tables accumulated.
C6_PartialRounds ==
    /\ [](/\ \A r \in Rounds :
               /\ spc = "rounds" => attempts[r] = (IF r < round_num THEN 1 ELSE 0)
               /\ spc = "done" => attempts[r] = (IF r <= latest_round THEN 1 ELSE 0)
          /\ (spc = "done" /\ latest_round >= 1) =>
               /\ response.status = "success"
               /\ \A d \in Drivers :
                     Held(response.driver_standings, d) = Held(driver_points, d)
               /\ \A t \in Teams :
                     Held(response.team_standings, t) = Held(team_points, t))
    /\ [][(spc = "rounds" /\ attempts' # attempts) =>
            /\ attempts'[round_num] = 1
            /\ round_num' = round_num + 1
            /\ spc' = "rounds"
            /\ IF loaded' = loaded
               THEN driver_points' = driver_points /\ team_points' = team_points
               ELSE \E r \in Rounds :
                    /\ r = round_num
                    /\ loaded' = loaded \cup {r}
                    /\ \A d \in Drivers :
                          Held(driver_points', d)
                            = Held(driver_points, d) + DriverRoundPoints(r, d)'
                    /\ \A t \in Teams :
                          Held(team_points', t)
                            = Held(team_points, t) + TeamRoundPoints(r, t)']_vars

\* C6 witness: of three rounds the second failed to load, and the standings
\* hold the points of the first and the third.
C6_Witness ==
    /\ Answered
    /\ latest_round = 3
    /\ loaded = {1, 3}
    /\ \E d \in Drivers :
          /\ DriverRoundPoints(1, d) > 0
          /\ DriverRoundPoints(3, d) > 0
          /\ Held(response.driver_standings, d)
               = DriverRoundPoints(1, d) + DriverRoundPoints(3, d)

\* A standings list ranks by points, non-increasing; entries of equal points
\* stand in the order in which they were first met in the loaded rounds; and
\* position is the 1-based index.
Ranked(st) ==
    /\ \A i \in 1..Len(st) : st[i].position = i
    /\ \A i, j \in 1..Len(st) :
          i < j => /\ st[i].points >= st[j].points
                   /\ st[i].points = st[j].points
                        => SeenBefore(loaded, st[i].id, st[j].id)

\* C7: stable ranking of the driver and the team standings.
C7_StableRanking ==
    Answered => Ranked(response.driver_standings) /\ Ranked(response.team_standings)

\* C7 witness: two drivers tie on 43 points (25 then 18, and 18 then 25) and
\* the one ranked ahead is the one of the first row of the first round.
C7_Witness ==
    /\ Answered
    /\ loaded = {1, 2}
    /\ LET ds == response.driver_standings
       IN  /\ Len(ds) >= 2
           /\ ds[1].points = 43
           /\ ds[2].points = 43
           /\ results[1][1].Abbreviation = ds[1].id
           /\ results[2][1].Abbreviation = ds[2].id

\* C10: standings are recomputed per request. In every answer each driver
\* and each team has one entry exactly if it appears in a round loaded
\* during this request, and its points are the sum of its result points
\* (no points: 0) over exactly those rounds, whatever earlier requests did.
C10_RecomputedPerRequest ==
    Answered =>
        /\ \A d \in Drivers :
              /\ Cardinality(Entries(response.driver_standings, d))
                   = (IF RoundsWith(loaded, d) # {} THEN 1 ELSE 0)
              /\ Held(response.driver_standings, d)
                   = SumTo([r \in Rounds |->
                              IF r \in loaded THEN DriverRoundPoints(r, d) ELSE 0],
                           NumRounds)
        /\ \A t \in Teams :
              /\ Cardinality(Entries(response.team_standings, t))
                   = (IF RoundsWith(loaded, t) # {} THEN 1 ELSE 0)
              /\ Held(response.team_standings, t)
                   = SumTo([r \in Rounds |->
                              IF r \in loaded THEN TeamRoundPoints(r, t) ELSE 0],
                           NumRounds)

\* C10 witness: a second request that got a round again which the first one
\* got, and a round whose load had failed in the first one.
C10_Witness ==
    /\ Answered
    /\ requests = 2
    /\ \E r1, r2 \in loaded :
          /\ r1 \in prevLoaded
          /\ r2 \notin prevLoaded
          /\ failed[RaceKey(r2)]
          /\ \E d \in Drivers : DriverRoundPoints(r1, d) > 0 /\ DriverRoundPoints(r2, d) > 0

(***************************************************************************)
(* Claims about get_pitstops and get_session_data.                         *)
(***************************************************************************)
LapSet == {laps[i] : i \in 1..Len(laps)}

\* The laps of l's driver before lap l, among the laps of set S.
Before(S, l) == {p \in S : p.Driver = l.Driver /\ p.LapNumber < l.LapNumber}

\* The immediately preceding one of them.
Preceding(S, l) ==
    CHOOSE p \in Before(S, l) : \A q \in Before(S, l) : q.LapNumber <= p.LapNumber

\* The events the laps of S call for: one at every lap that is not its
\* driver's first and whose compound differs from the preceding lap's.
Transitions(S) ==
    {[driver |-> l.Driver, lap |-> l.LapNumber,
      from_compound |-> Preceding(S, l).Compound, to_compound |-> l.Compound,
      pit_duration |-> None] :
        l \in {m \in S : Before(S, m) # {} /\ m.Compound # Preceding(S, m).Compound}}

Emitted == {pit_stops.pit_stops[i] : i \in 1..Len(pit_stops.pit_stops)}

\* C8: pit-stop detection. Per driver, with the laps in lap order, an event
\* is emitted at a lap exactly when it is not the driver's first lap and its
\* compound differs from that of the driver's preceding lap; the event names
\* both compounds and no duration; each event is emitted once.
C8_PitStopDetection ==
    pit_stops.status = "success" =>
        /\ Emitted = Transitions(LapSet)
        /\ Len(pit_stops.pit_stops) = Cardinality(Transitions(LapSet))

\* C8 on sessions in which every lap has a compound recorded.
C8_WhenCompoundsRecorded ==
    (pit_stops.status = "success" /\ \A l \in LapSet : present(l.Compound)) =>
        /\ Emitted = Transitions(LapSet)
        /\ Len(pit_stops.pit_stops) = Cardinality(Transitions(LapSet))

TimedLaps == {l \in LapSet : l.LapTime # NaT}

\* C9: a lap with no lap time is in no projection. The session response
\* lists no such lap and its total_laps is the highest lap number of the
\* laps with a time (0 without any); the pit-stop events are those of the
\* laps with a time alone.
C9_UntimedLapsExcluded ==
    /\ session_data.status = "success" =>
          /\ \A i \in 1..Len(session_data.laps) : session_data.laps[i].lap_time # NaT
          /\ session_data.total_laps
               = (IF TimedLaps = {} THEN 0 ELSE Max({l.LapNumber : l \in TimedLaps}))
    /\ pit_stops.status = "success" =>
          \A e \in Emitted :
              \E l \in TimedLaps :
                  /\ l.Driver = e.driver
                  /\ l.LapNumber = e.lap
                  /\ Before(TimedLaps, l) # {}
                  /\ Preceding(TimedLaps, l).Compound = e.from_compound

\* The sum of the points of all entries of a points dict.
Total(st) == SumTo([i \in 1..Len(st) |-> st[i].points], Len(st))

\* C12: the driver and the team table stay consistent. Before and after
\* every pass of the loop over the rounds, whichever rounds failed to load,
\* the points of all driver entries sum to the points of all team entries;
\* a pass that loads a round adds the sum of the round's points (a missing
\* value as 0) to both sums, and a pass that fails changes neither.
C12_TablesConsistent ==
    /\ [](Total(driver_points) = Total(team_points))
    /\ [][(spc = "rounds" /\ attempts' # attempts) =>
            IF loaded' = loaded
            THEN /\ Total(driver_points') = Total(driver_points)
                 /\ Total(team_points') = Total(team_points)
            ELSE \E r \in Rounds :
                 /\ r = round_num
                 /\ Total(driver_points')
                      = Total(driver_points)
                        + SumTo([i \in 1..Len(results'[r]) |-> PointsOf(results'[r][i])],
                                Len(results'[r]))
                 /\ Total(team_points') = Total(driver_points')]_vars

\* C12 witness: in the loop, after the first round failed to load and the
\* second one loaded, with two drivers of one team among the entries and a
\* row without points: the tables differ in shape and agree in their sum.
C12_Witness ==
    /\ spc = "rounds"
    /\ round_num = 3
    /\ loaded = {2}
    /\ attempts[1] = 1
    /\ \E i \in 1..Len(results[2]) : results[2][i].Points = NaN
    /\ Len(driver_points) > Len(team_points)
    /\ Total(driver_points) > 0
    /\ Total(driver_points) = Total(team_points)

(***************************************************************************)
(* Claims about get_telemetry.                                             *)
(***************************************************************************)
\* The least number of strides of d that cover n points.
Ceil(n, d) == (n + d - 1) \div d

\* C11: telemetry sampling. The telemetry of the answer for a fastest lap
\* is made of exactly the points at indices 0, stride, 2*stride, ... of the
\* lap's trace, in the order of the trace and each one as recorded (none
\* computed from its neighbours): a trace of n points gives ceil(n/stride)
\* points, and an empty trace gives a success answer with an empty sequence.
C11_TelemetrySampling ==
    (fastest_lap = "lap" /\ telemetry_data # NoResponse) =>
        /\ telemetry_data.status = "success"
        /\ Len(telemetry_data.telemetry) = Ceil(Len(telemetry), stride)
        /\ \A j \in 1..Len(telemetry_data.telemetry) :
              telemetry_data.telemetry[j]
                = TelemetryPoint(telemetry[(j - 1) * stride + 1])
        /\ telemetry = <<>> => telemetry_data.telemetry = <<>>

\* A trace of 101 points, all recorded, answered with the 11 points at the
\* indices 0, 10, ..., 100.
C11_Witness ==
    /\ fastest_lap = "lap"
    /\ Len(telemetry) = 101
    /\ \A i \in 1..Len(telemetry) : notna(telemetry[i].Distance)
    /\ telemetry_data # NoResponse
    /\ telemetry_data.status = "success"
    /\ Len(telemetry_data.telemetry) = 11
    /\ \A j \in 1..11 : telemetry_data.telemetry[j].distance = 5 * 10 * (j - 1)


====
